---- MODULE Spec2Model ----
(***************************************************************************)
(* A model of bmc/remedy.py: the RemedySession class, a client of the      *)
(* Remedy / Helix ITSM REST API.  One session object, its caller, and the  *)
(* HTTP requests the object hands to the `requests` library.               *)
(*                                                                         *)
(* Python values are modelled as follows.                                  *)
(*   str            a TLA+ string                                          *)
(*   Optional[T]    None is << >>, a value v is <<v>>                       *)
(*   dict           a set of <<key, value>> pairs                          *)
(*   List[str]      a sequence of strings                                  *)
(***************************************************************************)
EXTENDS Integers, Sequences, FiniteSets, TLC

VARIABLES
    pc,               \* where the caller is: "init", "failed", "live", "block"
    remedy_base_url,  \* self.remedy_base_url
    auth_token,       \* self.auth_token (Optional[str])
    wire,             \* the calls made to requests.post/put/get, in order
    login_response,   \* what the server answered to the login request
    last,             \* what the caller observed of the most recent call
    threads           \* two threads sharing the session: where each is in
                      \* its method, and the locals it holds

vars == <<pc, remedy_base_url, auth_token, wire, login_response, last, threads>>

----------------------------------------------------------------------------
(* Module constants                                                        *)

ENTRY_PATH == "/arsys/v1.0/entry/"
SCHEMA_PATH == "/arsys/v1.0/fields/"
LOGIN_PATH == "/jwt/login"
LOGOUT_PATH == "/jwt/logout"
REST_TIMEOUT == 60

----------------------------------------------------------------------------
(* Bounds and input domains                                                *)

MaxRequests == 3

None == << >>
Some(v) == <<v>>

ApiUrls == {"https://remedy"}
Usernames == {"user"}
Passwords == {"pw"}
Forms == {"HPD:Help Desk"}
EntryIds == {"INC1"}
FieldValues == {{<<"Status", "New">>}}
FieldLists == {None, Some(<< >>), Some(<<"Status", "Priority">>)}
(* (query, fields, limit) of query_form for a session in general use: all  *)
(* absent, all falsy, all given (QueryFormAll goes through the whole range *)
(* of the three).                                                          *)
QueryArgs ==
    {<<None, None, None>>,
     <<Some(""), Some(<< >>), Some(0)>>,
     <<Some("'Status'=\"New\""), Some(<<"Status", "Priority">>), Some(5)>>}

(* The full range of query_form's optional arguments.                      *)
Queries == {None, Some(""), Some("'Status'=\"New\"")}
Limits == {None, Some(0), Some(5)}
MaxQueryCalls == 1

Statuses == {200, 304, 404}
LoginBodies == {"tok123", ""}
Bodies == {"", "{}", "{\"error\":\"not found\"}"}
Locations == {None, Some("https://remedy/arsys/v1.0/entry/HPD:Help Desk/INC1")}
TransportErrors == {"requests.exceptions.ConnectionError"}

(* What a call into `requests` can come back with: a response, or a        *)
(* transport exception (err names its class) raised instead of a response. *)
ResponsesWith(bodies, locations) ==
    [err : {""}, status : Statuses, text : bodies, location : locations]
TransportFailures ==
    [err : TransportErrors, status : {0}, text : {""}, location : {None}]
LoginOutcomes == ResponsesWith(LoginBodies, {None}) \cup TransportFailures
LogoutOutcomes == ResponsesWith(Bodies, {None}) \cup TransportFailures
DataOutcomes == ResponsesWith(Bodies, {None}) \cup TransportFailures
CreateOutcomes == ResponsesWith(Bodies, Locations) \cup TransportFailures

----------------------------------------------------------------------------
(* Python and `requests` semantics the methods rely on                     *)

(* bool(x) of an Optional[str], Optional[int] and Optional[List[str]]:     *)
(* None, "", 0 and [] are falsy.                                           *)
Truthy(o) == o # None /\ o[1] # ""
TruthyInt(o) == o # None /\ o[1] # 0
TruthyList(o) == o # None /\ o[1] # << >>

(* requests.Response.ok: raise_for_status() raises only for                *)
(* 400 <= status_code < 600, so every other status is "ok".                *)
Ok(response) == ~(400 <= response.status /\ response.status < 600)

Reason(status) ==
    CASE status = 200 -> "OK"
      [] status = 304 -> "Not Modified"
      [] status = 404 -> "Not Found"
      [] OTHER -> ""

(* response.json(): the parsed body; an empty or non-JSON body does not    *)
(* decode and json() raises JSONDecodeError instead.                       *)
JsonDecodable(text) == text \in {"{}", "{\"error\":\"not found\"}"}
JsonLoads(text) ==
    CASE text = "{}" -> {}
      [] text = "{\"error\":\"not found\"}" -> {<<"error", "not found">>}
      [] OTHER -> {}

RECURSIVE Join(_, _)
(* sep.join(list) *)
Join(sep, list) ==
    IF list = << >> THEN ""
    ELSE IF Len(list) = 1 THEN list[1]
    ELSE list[1] \o sep \o Join(sep, Tail(list))

(* t in s, for strings *)
Contains(s, t) ==
    \E i \in 1..(Len(s) - Len(t) + 1) : SubSeq(s, i, i + Len(t) - 1) = t

(* The exception classes and their base classes (issubclass).              *)
Bases(cls) ==
    CASE cls = "RemedyException" -> {"RemedyException", "Exception"}
      [] cls = "RemedyLoginException" ->
            {"RemedyLoginException", "RemedyException", "Exception"}
      [] cls = "RemedyLogoutException" ->
            {"RemedyLogoutException", "RemedyException", "Exception"}
      [] OTHER -> {cls, "Exception"}

----------------------------------------------------------------------------
(* Requests and results                                                    *)

Request(method, url, headers, params, encoding, body) ==
    [method |-> method, url |-> url, headers |-> headers, params |-> params,
     encoding |-> encoding, body |-> body, timeout |-> REST_TIMEOUT]

NoValue == [kind |-> "None", location |-> "", json |-> {}]
Dict(json) == [kind |-> "dict", location |-> "", json |-> json]
Pair(location, json) == [kind |-> "tuple", location |-> location, json |-> json]

(* The effect of one method call: what the caller observes (a return value *)
(* or a raised exception), the token afterwards, the requests it made.     *)
Return(value, token, sent) ==
    [outcome |-> "return", exc |-> "", msg |-> "", value |-> value,
     token |-> token, sent |-> sent]
Raise(cls, msg, token, sent) ==
    [outcome |-> "raise", exc |-> cls, msg |-> msg, value |-> NoValue,
     token |-> token, sent |-> sent]

(* headers = {"Authorization": self.auth_token}; `requests` leaves out a   *)
(* header whose value is None.                                             *)
AuthHeader(token) == IF token = None THEN {} ELSE {<<"Authorization", token[1]>>}

----------------------------------------------------------------------------
(* The methods of RemedySession                                            *)

(* Fault: the token is stored as the bare response body, without the      *)
(* "AR-JWT " scheme in front of it.                                        *)
init_bare_token(api_url, username, password, net) ==
    LET payload == {<<"username", username>>, <<"password", password>>}
        req == Request("POST", api_url \o LOGIN_PATH, {}, {}, "form", payload)
    IN  IF net.err # "" THEN Raise(net.err, "", None, <<req>>)
        ELSE IF ~Ok(net) THEN
            Raise("RemedyLoginException",
                  "Failed to login to Remedy server: HTTP "
                      \o ToString(net.status) \o " (" \o Reason(net.status) \o ")",
                  None, <<req>>)
        ELSE Return(NoValue, Some(net.text), <<req>>)

(* __init__: the login. `token` of the effect is what self.auth_token is   *)
(* after the call (the attribute is never assigned when the call raises).  *)
init(api_url, username, password, net) ==
    LET payload == {<<"username", username>>, <<"password", password>>}
        login_url == api_url \o LOGIN_PATH
        req == Request("POST", login_url, {}, {}, "form", payload)
    IN  IF net.err # "" THEN Raise(net.err, "", None, <<req>>)
        ELSE IF ~Ok(net) THEN
            Raise("RemedyLoginException",
                  "Failed to login to Remedy server: HTTP "
                      \o ToString(net.status) \o " (" \o Reason(net.status) \o ")",
                  None, <<req>>)
        ELSE Return(NoValue, Some("AR-JWT " \o net.text), <<req>>)

(* Fault: a successful logout forgets to clear the token.                  *)
logout_keeps_token(net) ==
    IF ~Truthy(auth_token) THEN
        Raise("RemedyLogoutException", "No active login session; cannot logout.",
              auth_token, << >>)
    ELSE
        LET req == Request("POST", remedy_base_url \o LOGOUT_PATH,
                           AuthHeader(auth_token), {}, "none", {})
        IN  IF net.err # "" THEN Raise(net.err, "", auth_token, <<req>>)
            ELSE IF ~Ok(net) THEN
                Raise("RemedyLogoutException",
                      "Failed to log out of Helix ITSM server: ("
                          \o ToString(net.status) \o ") " \o net.text \o "\"",
                      auth_token, <<req>>)
            ELSE Return(NoValue, auth_token, <<req>>)

(* Fault: logout without the guard on the token: the request is sent       *)
(* whether or not a token is held.                                         *)
logout_unguarded(net) ==
    LET req == Request("POST", remedy_base_url \o LOGOUT_PATH,
                       AuthHeader(auth_token), {}, "none", {})
    IN  IF net.err # "" THEN Raise(net.err, "", auth_token, <<req>>)
        ELSE IF ~Ok(net) THEN
            Raise("RemedyLogoutException",
                  "Failed to log out of Helix ITSM server: ("
                      \o ToString(net.status) \o ") " \o net.text \o "\"",
                  auth_token, <<req>>)
        ELSE Return(NoValue, None, <<req>>)

logout(net) ==
    IF ~Truthy(auth_token) THEN
        Raise("RemedyLogoutException", "No active login session; cannot logout.",
              auth_token, << >>)
    ELSE
        LET headers == AuthHeader(auth_token)
            req == Request("POST", remedy_base_url \o LOGOUT_PATH, headers, {},
                           "none", {})
        IN  IF net.err # "" THEN Raise(net.err, "", auth_token, <<req>>)
            ELSE IF ~Ok(net) THEN
                Raise("RemedyLogoutException",
                      "Failed to log out of Helix ITSM server: ("
                          \o ToString(net.status) \o ") " \o net.text \o "\"",
                      auth_token, <<req>>)
            ELSE Return(NoValue, None, <<req>>)

FieldsParam(fields) == "values(" \o Join(",", fields[1]) \o ")"

(* Fault: create_entry sends its request a second time when the first      *)
(* response is a failure.                                                  *)
create_entry_retry(form, field_values, fields, net) ==
    IF ~Truthy(auth_token) THEN
        Raise("RemedyException",
              "Unable to create entry without a valid login session",
              auth_token, << >>)
    ELSE
        LET params == IF TruthyList(fields)
                      THEN {<<"fields", FieldsParam(fields)>>} ELSE {}
            req == Request("POST", remedy_base_url \o ENTRY_PATH \o form,
                           AuthHeader(auth_token), params, "json", field_values)
        IN  IF net.err # "" THEN Raise(net.err, "", auth_token, <<req>>)
            ELSE IF ~Ok(net) THEN
                Raise("RemedyException", "Failed to create entry: " \o net.text,
                      auth_token, <<req, req>>)
            ELSE IF ~JsonDecodable(net.text) THEN
                Raise("requests.exceptions.JSONDecodeError", "",
                      auth_token, <<req>>)
            ELSE Return(Pair(IF Truthy(net.location) THEN net.location[1] ELSE "",
                             JsonLoads(net.text)),
                        auth_token, <<req>>)

create_entry(form, field_values, fields, net) ==
    IF ~Truthy(auth_token) THEN
        Raise("RemedyException",
              "Unable to create entry without a valid login session",
              auth_token, << >>)
    ELSE
        LET target_url == remedy_base_url \o ENTRY_PATH \o form
            headers == AuthHeader(auth_token)
            params == IF TruthyList(fields)
                      THEN {<<"fields", FieldsParam(fields)>>} ELSE {}
            req == Request("POST", target_url, headers, params, "json",
                           field_values)
        IN  IF net.err # "" THEN Raise(net.err, "", auth_token, <<req>>)
            ELSE IF ~Ok(net) THEN
                Raise("RemedyException", "Failed to create entry: " \o net.text,
                      auth_token, <<req>>)
            ELSE
                LET location == IF Truthy(net.location)
                                THEN net.location[1] ELSE ""
                IN  IF ~JsonDecodable(net.text) THEN
                        Raise("requests.exceptions.JSONDecodeError", "",
                              auth_token, <<req>>)
                    ELSE Return(Pair(location, JsonLoads(net.text)),
                                auth_token, <<req>>)

(* Fault: modify_entry gives the token up when the server refuses the      *)
(* change.                                                                 *)
modify_entry_drops_token(form, field_values, entry_id, net) ==
    IF ~Truthy(auth_token) THEN
        Raise("RemedyException",
              "Unable to modify entry without a valid login session",
              auth_token, << >>)
    ELSE
        LET req == Request("PUT",
                           remedy_base_url \o ENTRY_PATH \o form \o "/" \o entry_id,
                           AuthHeader(auth_token), {}, "json", field_values)
        IN  IF net.err # "" THEN Raise(net.err, "", auth_token, <<req>>)
            ELSE IF Ok(net) THEN Return(NoValue, auth_token, <<req>>)
            ELSE Raise("RemedyException", "Failed to modify the incident",
                       None, <<req>>)

modify_entry(form, field_values, entry_id, net) ==
    IF ~Truthy(auth_token) THEN
        Raise("RemedyException",
              "Unable to modify entry without a valid login session",
              auth_token, << >>)
    ELSE
        LET target_url == remedy_base_url \o ENTRY_PATH \o form \o "/" \o entry_id
            headers == AuthHeader(auth_token)
            req == Request("PUT", target_url, headers, {}, "json", field_values)
        IN  IF net.err # "" THEN Raise(net.err, "", auth_token, <<req>>)
            ELSE IF Ok(net) THEN Return(NoValue, auth_token, <<req>>)
            ELSE Raise("RemedyException", "Failed to modify the incident",
                       auth_token, <<req>>)

(* Fault: the limit is sent whenever it is given, zero included (a test    *)
(* for presence in place of the truth test).                               *)
query_form_limit_if_given(form, query, fields, limit, net) ==
    IF ~Truthy(auth_token) THEN
        Raise("RemedyException",
              "Unable to get entry without a valid login session",
              auth_token, << >>)
    ELSE
        LET params ==
                (IF Truthy(query) THEN {<<"q", query[1]>>} ELSE {})
                \cup (IF limit # None
                      THEN {<<"limit", ToString(limit[1])>>} ELSE {})
                \cup (IF TruthyList(fields)
                      THEN {<<"fields", FieldsParam(fields)>>} ELSE {})
            req == Request("GET", remedy_base_url \o ENTRY_PATH \o form,
                           AuthHeader(auth_token), params, "none", {})
        IN  IF net.err # "" THEN Raise(net.err, "", auth_token, <<req>>)
            ELSE IF Ok(net) THEN
                IF ~JsonDecodable(net.text) THEN
                    Raise("requests.exceptions.JSONDecodeError", "",
                          auth_token, <<req>>)
                ELSE Return(Dict(JsonLoads(net.text)), auth_token, <<req>>)
            ELSE Raise("RemedyException", "Error getting entry: " \o net.text,
                       auth_token, <<req>>)

query_form(form, query, fields, limit, net) ==
    IF ~Truthy(auth_token) THEN
        Raise("RemedyException",
              "Unable to get entry without a valid login session",
              auth_token, << >>)
    ELSE
        LET target_url == remedy_base_url \o ENTRY_PATH \o form
            headers == AuthHeader(auth_token)
            params ==
                (IF Truthy(query) THEN {<<"q", query[1]>>} ELSE {})
                \cup (IF TruthyInt(limit)
                      THEN {<<"limit", ToString(limit[1])>>} ELSE {})
                \cup (IF TruthyList(fields)
                      THEN {<<"fields", FieldsParam(fields)>>} ELSE {})
            req == Request("GET", target_url, headers, params, "none", {})
        IN  IF net.err # "" THEN Raise(net.err, "", auth_token, <<req>>)
            ELSE IF Ok(net) THEN
                IF ~JsonDecodable(net.text) THEN
                    Raise("requests.exceptions.JSONDecodeError", "",
                          auth_token, <<req>>)
                ELSE Return(Dict(JsonLoads(net.text)), auth_token, <<req>>)
            ELSE Raise("RemedyException", "Error getting entry: " \o net.text,
                       auth_token, <<req>>)

(* Fault: get_schema without the guard on the token.                       *)
get_schema_unguarded(form, net) ==
    LET params ==
            {<<"field_criteria",
               "NAME, DATATYPE, LIMIT, DISPLAY_INSTANCE, OPTIONS">>,
             <<"field_type", "DATA, ATTACH, ATTACHPOOL">>}
        req == Request("GET", remedy_base_url \o SCHEMA_PATH \o form,
                       AuthHeader(auth_token), params, "none", {})
    IN  IF net.err # "" THEN Raise(net.err, "", auth_token, <<req>>)
        ELSE IF Ok(net) THEN
            IF ~JsonDecodable(net.text) THEN
                Raise("requests.exceptions.JSONDecodeError", "",
                      auth_token, <<req>>)
            ELSE Return(Dict(JsonLoads(net.text)), auth_token, <<req>>)
        ELSE Raise("RemedyException",
                   "Error getting form schema: " \o net.text,
                   auth_token, <<req>>)

get_schema(form, net) ==
    IF ~Truthy(auth_token) THEN
        Raise("RemedyException",
              "Unable to get schema without a valid login session",
              auth_token, << >>)
    ELSE
        LET target_url == remedy_base_url \o SCHEMA_PATH \o form
            headers == AuthHeader(auth_token)
            params ==
                {<<"field_criteria",
                   "NAME, DATATYPE, LIMIT, DISPLAY_INSTANCE, OPTIONS">>,
                 <<"field_type", "DATA, ATTACH, ATTACHPOOL">>}
            req == Request("GET", target_url, headers, params, "none", {})
        IN  IF net.err # "" THEN Raise(net.err, "", auth_token, <<req>>)
            ELSE IF Ok(net) THEN
                IF ~JsonDecodable(net.text) THEN
                    Raise("requests.exceptions.JSONDecodeError", "",
                          auth_token, <<req>>)
                ELSE Return(Dict(JsonLoads(net.text)), auth_token, <<req>>)
            ELSE Raise("RemedyException",
                       "Error getting form schema: " \o net.text,
                       auth_token, <<req>>)

(* Fault: __exit__ logs out only when the block ended normally.            *)
exit_skips_on_error(exctype, net) ==
    LET eff == IF Truthy(auth_token) /\ exctype = "" THEN logout(net)
               ELSE Return(NoValue, auth_token, << >>)
    IN  IF eff.outcome = "raise" THEN eff
        ELSE IF exctype # "" THEN Raise(exctype, "", eff.token, eff.sent)
        ELSE eff

(* __exit__(exctype, excvalue, traceback), exctype "" when the block ended *)
(* normally.  It returns None, so an exception in flight goes on to the    *)
(* caller; an exception raised by logout() leaves __exit__ and takes the   *)
(* place of the one in flight, which Python keeps as its __context__.      *)
exit(exctype, net) ==
    LET eff == IF Truthy(auth_token) THEN logout(net)
               ELSE Return(NoValue, auth_token, << >>)
    IN  IF eff.outcome = "raise" THEN eff
        ELSE IF exctype # "" THEN Raise(exctype, "", eff.token, eff.sent)
        ELSE eff

DataOps == {"create_entry", "modify_entry", "query_form", "get_schema"}

----------------------------------------------------------------------------
(* The caller                                                              *)

NoResponse == [err |-> "", status |-> 0, text |-> "", location |-> None]

NoArgs == <<None, None, None>>

NoCall ==
    [op |-> "", outcome |-> "", exc |-> "", msg |-> "", context |-> "",
     value |-> NoValue, sent |-> 0, token_before |-> None,
     net |-> NoResponse, inflight |-> "", args |-> NoArgs]

(* The record of one call: its outcome, the token held when it was made,   *)
(* the number of requests it made and what came back for them.             *)
Observed(op, eff, net) ==
    [op |-> op, outcome |-> eff.outcome, exc |-> eff.exc, msg |-> eff.msg,
     context |-> "", value |-> eff.value, sent |-> Len(eff.sent),
     token_before |-> auth_token,
     net |-> IF eff.sent = << >> THEN NoResponse ELSE net,
     inflight |-> "", args |-> NoArgs]

(* A thread inside a method: "idle" before the call, "guarded" past the    *)
(* test of the token, "ready" with its headers built, "sent" with its      *)
(* request made, "done" when the method has returned or raised.            *)
ThreadAt(where, op, headers, sent, outcome, exc) ==
    [pc |-> where, op |-> op, headers |-> headers, sent |-> sent,
     outcome |-> outcome, exc |-> exc]

Idle ==
    [worker |-> ThreadAt("idle", "", {}, << >>, "", ""),
     closer |-> ThreadAt("idle", "logout", {}, << >>, "", "")]

Init ==
    /\ pc = "init"
    /\ remedy_base_url = ""
    /\ auth_token = None
    /\ wire = << >>
    /\ login_response = NoResponse
    /\ last = NoCall
    /\ threads = Idle

(* session = RemedySession(api_url, username, password) *)
Construct ==
    /\ pc = "init"
    /\ \E api_url \in ApiUrls, username \in Usernames, password \in Passwords,
          net \in LoginOutcomes :
          LET eff == init(api_url, username, password, net)
          IN  /\ remedy_base_url' = api_url
              /\ auth_token' = eff.token
              /\ wire' = wire \o eff.sent
              /\ login_response' = net
              /\ last' = Observed("__init__", eff, net)
              /\ pc' = IF eff.outcome = "return" THEN "live" ELSE "failed"
    /\ UNCHANGED threads

(* Applying the effect of a call on the session the caller holds.  A call  *)
(* that would send is taken only while the request log has room.           *)
Call(op, eff, net) ==
    /\ pc \in {"live", "block"}
    /\ Len(wire) + Len(eff.sent) <= MaxRequests
    /\ auth_token' = eff.token
    /\ wire' = wire \o eff.sent
    /\ last' = Observed(op, eff, net)
    /\ UNCHANGED <<pc, remedy_base_url, login_response, threads>>

(* session.logout() *)
Logout ==
    \E net \in LogoutOutcomes : Call("logout", logout(net), net)

CreateEntry ==
    \E form \in Forms, field_values \in FieldValues, fields \in FieldLists,
       net \in CreateOutcomes :
        Call("create_entry", create_entry(form, field_values, fields, net), net)

ModifyEntry ==
    \E form \in Forms, field_values \in FieldValues, entry_id \in EntryIds,
       net \in DataOutcomes :
        Call("modify_entry", modify_entry(form, field_values, entry_id, net), net)

(* session.query_form(form, query, fields, limit); the record of the call  *)
(* keeps the three optional arguments.                                     *)
QueryCall(form, args, net) ==
    LET eff == query_form(form, args[1], args[2], args[3], net)
    IN  /\ pc \in {"live", "block"}
        /\ Len(wire) + Len(eff.sent) <= MaxRequests
        /\ auth_token' = eff.token
        /\ wire' = wire \o eff.sent
        /\ last' = [Observed("query_form", eff, net) EXCEPT !.args = args]
        /\ UNCHANGED <<pc, remedy_base_url, login_response, threads>>

QueryForm ==
    \E form \in Forms, args \in QueryArgs, net \in DataOutcomes :
        QueryCall(form, args, net)

(* query_form over the whole range of its arguments, on a session that has *)
(* made at most MaxQueryCalls requests since its login.                    *)
QueryFormAll ==
    /\ Len(wire) <= MaxQueryCalls
    /\ \E form \in Forms, query \in Queries, fields \in FieldLists,
          limit \in Limits, net \in DataOutcomes :
          QueryCall(form, <<query, fields, limit>>, net)

GetSchema ==
    \E form \in Forms, net \in DataOutcomes :
        Call("get_schema", get_schema(form, net), net)

(* Fault: __enter__ takes a fresh token for the session it is handed.      *)
Enter_relogin ==
    /\ pc = "live"
    /\ pc' = "block"
    /\ auth_token' = Some("AR-JWT " \o login_response.text)
    /\ last' = [NoCall EXCEPT !.op = "__enter__", !.outcome = "return",
                              !.token_before = auth_token]
    /\ UNCHANGED <<remedy_base_url, wire, login_response, threads>>

(* with session: ...   __enter__ returns self and changes nothing.         *)
Enter ==
    /\ pc = "live"
    /\ pc' = "block"
    /\ last' = [NoCall EXCEPT !.op = "__enter__", !.outcome = "return",
                              !.token_before = auth_token]
    /\ UNCHANGED <<remedy_base_url, auth_token, wire, login_response, threads>>

(* The exceptions that can be in flight when the block is left: none, one  *)
(* raised by the caller's own code, or one a method of the session raised. *)
InFlight ==
    {"", "ValueError"} \cup (IF last.outcome = "raise" THEN {last.exc} ELSE {})

(* The block is left and the with statement calls __exit__.                *)
Exit ==
    /\ pc = "block"
    /\ \E exctype \in InFlight, net \in LogoutOutcomes :
          LET eff == exit(exctype, net)
          IN  /\ Len(wire) + Len(eff.sent) <= MaxRequests
              /\ auth_token' = eff.token
              /\ wire' = wire \o eff.sent
              /\ last' = [Observed("__exit__", eff, net) EXCEPT
                             !.inflight = exctype,
                             !.context = IF eff.exc # exctype THEN exctype ELSE ""]
    /\ pc' = "live"
    /\ UNCHANGED <<remedy_base_url, login_response, threads>>

Next ==
    \/ Construct
    \/ Logout
    \/ CreateEntry
    \/ ModifyEntry
    \/ QueryForm
    \/ GetSchema
    \/ Enter
    \/ Exit

Spec == Init /\ [][Next]_vars

(* A session that is constructed and then only queried.                    *)
NextQuery ==
    \/ Construct
    \/ QueryFormAll

SpecQuery == Init /\ [][NextQuery]_vars

----------------------------------------------------------------------------
(* Two threads on one session: the worker runs a data operation, the       *)
(* closer runs logout.  Each read of self.auth_token, each requests call   *)
(* and each assignment is a step of its own, and the steps of the two      *)
(* threads interleave freely (the class has no lock).                      *)

(* The request of data operation `op` (with fixed arguments) as it is      *)
(* built from the local `headers`.                                         *)
RaceRequest(op, headers) ==
    LET form == CHOOSE f \in Forms : TRUE
        field_values == CHOOSE v \in FieldValues : TRUE
        entry_id == CHOOSE e \in EntryIds : TRUE
    IN  CASE op = "create_entry" ->
                Request("POST", remedy_base_url \o ENTRY_PATH \o form, headers,
                        {}, "json", field_values)
          [] op = "modify_entry" ->
                Request("PUT",
                        remedy_base_url \o ENTRY_PATH \o form \o "/" \o entry_id,
                        headers, {}, "json", field_values)
          [] op = "query_form" ->
                Request("GET", remedy_base_url \o ENTRY_PATH \o form, headers,
                        {}, "none", {})
          [] OTHER ->
                Request("GET", remedy_base_url \o SCHEMA_PATH \o form, headers,
                        {<<"field_criteria",
                           "NAME, DATATYPE, LIMIT, DISPLAY_INSTANCE, OPTIONS">>,
                         <<"field_type", "DATA, ATTACH, ATTACHPOOL">>},
                        "none", {})

RaceStep(worker, closer) ==
    /\ pc = "live"
    /\ threads' = [worker |-> worker, closer |-> closer]
    /\ UNCHANGED <<pc, remedy_base_url, login_response, last>>

(* if not self.auth_token: raise RemedyException(...) *)
WorkerGuard ==
    /\ threads.worker.pc = "idle"
    /\ \E op \in DataOps :
          RaceStep(IF Truthy(auth_token)
                   THEN ThreadAt("guarded", op, {}, << >>, "", "")
                   ELSE ThreadAt("done", op, {}, << >>, "raise", "RemedyException"),
                   threads.closer)
    /\ UNCHANGED <<auth_token, wire>>

(* headers = {"Authorization": self.auth_token} *)
WorkerHeaders ==
    /\ threads.worker.pc = "guarded"
    /\ RaceStep([threads.worker EXCEPT !.pc = "ready",
                                       !.headers = AuthHeader(auth_token)],
                threads.closer)
    /\ UNCHANGED <<auth_token, wire>>

(* response = requests.post / put / get (target_url, headers=headers, ...) *)
WorkerSend ==
    /\ threads.worker.pc = "ready"
    /\ LET req == RaceRequest(threads.worker.op, threads.worker.headers)
       IN  /\ wire' = Append(wire, req)
           /\ RaceStep([threads.worker EXCEPT !.pc = "sent", !.sent = <<req>>],
                       threads.closer)
    /\ UNCHANGED auth_token

(* The response arrives, or the requests call raises, and the method ends. *)
WorkerFinish ==
    /\ threads.worker.pc = "sent"
    /\ \E net \in DataOutcomes :
          LET exc == IF net.err # "" THEN net.err
                     ELSE IF ~Ok(net) THEN "RemedyException"
                     ELSE IF threads.worker.op # "modify_entry"
                             /\ ~JsonDecodable(net.text)
                          THEN "requests.exceptions.JSONDecodeError"
                     ELSE ""
          IN  RaceStep([threads.worker EXCEPT
                           !.pc = "done",
                           !.outcome = IF exc = "" THEN "return" ELSE "raise",
                           !.exc = exc],
                       threads.closer)
    /\ UNCHANGED <<auth_token, wire>>

(* logout: if not self.auth_token: raise RemedyLogoutException(...) *)
CloserGuard ==
    /\ threads.closer.pc = "idle"
    /\ RaceStep(threads.worker,
                IF Truthy(auth_token)
                THEN [threads.closer EXCEPT !.pc = "guarded"]
                ELSE [threads.closer EXCEPT !.pc = "done", !.outcome = "raise",
                                            !.exc = "RemedyLogoutException"])
    /\ UNCHANGED <<auth_token, wire>>

(* logout: headers = {"Authorization": self.auth_token} *)
CloserHeaders ==
    /\ threads.closer.pc = "guarded"
    /\ RaceStep(threads.worker,
                [threads.closer EXCEPT !.pc = "ready",
                                       !.headers = AuthHeader(auth_token)])
    /\ UNCHANGED <<auth_token, wire>>

(* logout: response = requests.post(logout url, headers=headers, ...) *)
CloserSend ==
    /\ threads.closer.pc = "ready"
    /\ LET req == Request("POST", remedy_base_url \o LOGOUT_PATH,
                          threads.closer.headers, {}, "none", {})
       IN  /\ wire' = Append(wire, req)
           /\ RaceStep(threads.worker,
                       [threads.closer EXCEPT !.pc = "sent", !.sent = <<req>>])
    /\ UNCHANGED auth_token

(* Fault: a successful logout blanks the token ("") where it should remove *)
(* it.                                                                     *)
CloserFinish_blanks_token ==
    /\ threads.closer.pc = "sent"
    /\ \E net \in LogoutOutcomes :
          LET exc == IF net.err # "" THEN net.err
                     ELSE IF ~Ok(net) THEN "RemedyLogoutException" ELSE ""
          IN  /\ auth_token' = IF exc = "" THEN Some("") ELSE auth_token
              /\ RaceStep(threads.worker,
                          [threads.closer EXCEPT
                              !.pc = "done",
                              !.outcome = IF exc = "" THEN "return" ELSE "raise",
                              !.exc = exc])
    /\ UNCHANGED wire

(* logout: the response arrives; when it is ok, self.auth_token = None.    *)
CloserFinish ==
    /\ threads.closer.pc = "sent"
    /\ \E net \in LogoutOutcomes :
          LET exc == IF net.err # "" THEN net.err
                     ELSE IF ~Ok(net) THEN "RemedyLogoutException" ELSE ""
          IN  /\ auth_token' = IF exc = "" THEN None ELSE auth_token
              /\ RaceStep(threads.worker,
                          [threads.closer EXCEPT
                              !.pc = "done",
                              !.outcome = IF exc = "" THEN "return" ELSE "raise",
                              !.exc = exc])
    /\ UNCHANGED wire

NextRace ==
    \/ Construct
    \/ WorkerGuard
    \/ WorkerHeaders
    \/ WorkerSend
    \/ WorkerFinish
    \/ CloserGuard
    \/ CloserHeaders
    \/ CloserSend
    \/ CloserFinish

SpecRace == Init /\ [][NextRace]_vars

----------------------------------------------------------------------------
(* The vocabulary of the specification, in terms of the code               *)

Is2xx(status) == 200 <= status /\ status < 300

(* The call got a response / the call's request failed in transport.       *)
GotResponse(r) == r.sent = 1 /\ r.net.err = ""
TransportFailed(r) == r.sent = 1 /\ r.net.err # ""

(* NotAuthenticated: the error of a data operation's guard on the token.   *)
NotAuthenticated(r) ==
    /\ r.outcome = "raise"
    /\ r.exc = "RemedyException"
    /\ Contains(r.msg, "without a valid login session")

(* LoginFailure and LogoutFailure are the two subclasses of the code.      *)
LoginFailure(r) == r.outcome = "raise" /\ r.exc = "RemedyLoginException"
LogoutFailure(r) == r.outcome = "raise" /\ r.exc = "RemedyLogoutException"

IsLogoutRequest(req) ==
    req.method = "POST" /\ req.url = remedy_base_url \o LOGOUT_PATH

LogoutRequestSent == \E i \in 1..Len(wire) : IsLogoutRequest(wire[i])

----------------------------------------------------------------------------
(* C1: a data operation (create_entry, modify_entry, query_form,           *)
(* get_schema) called while no token is held fails with the                *)
(* NotAuthenticated error, sends no request, and leaves the token absent.  *)
C1_NoTokenNoRequest ==
    (last.op \in DataOps /\ ~Truthy(last.token_before)) =>
        /\ NotAuthenticated(last)
        /\ last.sent = 0
        /\ ~Truthy(auth_token)

(* Each of the four operations has been called after a logout cleared the  *)
(* token; here get_schema.                                                 *)
C1_Witness ==
    /\ last.op = "get_schema"
    /\ ~Truthy(last.token_before)
    /\ LogoutRequestSent

(* C2: every login response that is not 2xx makes the construction fail    *)
(* with LoginFailure, stores no token, hands the caller no session and     *)
(* sends exactly one request.                                              *)
C2_Non2xxLoginFails ==
    (last.op = "__init__" /\ GotResponse(last) /\ ~Is2xx(last.net.status)) =>
        /\ LoginFailure(last)
        /\ auth_token = None
        /\ pc = "failed"
        /\ Len(wire) = 1

(* C3: a logout that receives a 2xx response leaves the token absent, and  *)
(* from then on every data operation on the session fails with             *)
(* NotAuthenticated.                                                       *)
C3_LogoutClosesSession ==
    [][/\ (last'.op = "logout" /\ GotResponse(last') /\ Is2xx(last'.net.status))
            => auth_token' = None
       /\ (pc # "init" /\ auth_token = None /\ last'.op \in DataOps)
            => (NotAuthenticated(last') /\ auth_token' = None)]_vars

(* A data operation was refused on a session whose logout got a 2xx.       *)
C3_Witness ==
    /\ last.op \in DataOps
    /\ NotAuthenticated(last)
    /\ Len(wire) = 2
    /\ IsLogoutRequest(wire[2])

(* C4: logout on a session that holds no token fails with LogoutFailure    *)
(* ("no active session"), sends no request and leaves the token absent.    *)
C4_LogoutWithoutToken ==
    (last.op = "logout" /\ ~Truthy(last.token_before)) =>
        /\ LogoutFailure(last)
        /\ Contains(last.msg, "No active login session")
        /\ last.sent = 0
        /\ auth_token = None

(* The second of two logout calls, the first having cleared the token.     *)
C4_Witness ==
    /\ last.op = "logout"
    /\ ~Truthy(last.token_before)
    /\ LogoutRequestSent

(* C5: the token changes only twice: from absent to present by the login   *)
(* of the construction, and from present to absent by a logout; once       *)
(* absent on a constructed session it stays absent.                        *)
C5_ClosedIsTerminal ==
    [][/\ (pc # "init" /\ ~Truthy(auth_token)) => ~Truthy(auth_token')
       /\ auth_token' # auth_token =>
            \/ pc = "init" /\ pc' = "live" /\ Truthy(auth_token')
            \/ /\ pc # "init" /\ Truthy(auth_token) /\ auth_token' = None
               /\ last'.op \in {"logout", "__exit__"}]_vars

(* A closed session has gone through a scoped block once more.             *)
C5_Witness ==
    /\ last.op = "__exit__"
    /\ ~Truthy(last.token_before)
    /\ ~Truthy(auth_token)
    /\ LogoutRequestSent

(* C6: when a scoped block is left, normally or by an error, a logout      *)
(* request has been sent by the time control is back with the caller: the  *)
(* exit sends one when a token is still held, and a token is absent only   *)
(* after a logout request.                                                 *)
C6_LogoutOnEveryExit ==
    last.op = "__exit__" =>
        /\ Truthy(last.token_before) =>
              (last.sent = 1 /\ IsLogoutRequest(wire[Len(wire)]))
        /\ LogoutRequestSent

(* The block was left by an error and the exit sent the logout request.    *)
C6_Witness ==
    /\ last.op = "__exit__"
    /\ last.inflight # ""
    /\ last.sent = 1

(* C7: when the block is left by an error, the caller observes that error  *)
(* after the scoped exit, also when the logout of the exit fails.          *)
C7_OriginalErrorObserved ==
    (last.op = "__exit__" /\ last.inflight # "") =>
        (last.outcome = "raise" /\ last.exc = last.inflight)

(* C8: modify_entry returns None on a 2xx response, and on a response     *)
(* that is not 2xx fails with an error whose message includes the          *)
(* response body; stated here for the 2xx and for the 4xx and 5xx          *)
(* responses, the statuses on which the code does raise.                   *)
C8_ModifyFailureCarriesBody ==
    (last.op = "modify_entry" /\ GotResponse(last)) =>
        /\ Is2xx(last.net.status) =>
              (last.outcome = "return" /\ last.value = NoValue)
        /\ last.net.status >= 400 =>
              /\ last.outcome = "raise"
              /\ last.exc = "RemedyException"
              /\ Contains(last.msg, last.net.text)

(* C9: every request after the login carries the header Authorization:     *)
(* "AR-JWT " followed by the raw body of the login response; get_schema    *)
(* sends its two fixed parameters and, on a 200, returns the parsed body.  *)
C9_AuthorizationHeader ==
    /\ \A i \in 2..Len(wire) :
          wire[i].headers = {<<"Authorization", "AR-JWT " \o login_response.text>>}
    /\ (last.op = "get_schema" /\ last.sent = 1) =>
          /\ wire[Len(wire)].params =
                {<<"field_criteria",
                   "NAME, DATATYPE, LIMIT, DISPLAY_INSTANCE, OPTIONS">>,
                 <<"field_type", "DATA, ATTACH, ATTACHPOOL">>}
          /\ (GotResponse(last) /\ last.net.status = 200
                  /\ JsonDecodable(last.net.text)) =>
                (last.outcome = "return"
                    /\ last.value = Dict(JsonLoads(last.net.text)))

(* Login answered tok123; get_schema then sent AR-JWT tok123 and returned  *)
(* the body of its 200.                                                    *)
C9_Witness ==
    /\ login_response.text = "tok123"
    /\ last.op = "get_schema"
    /\ last.outcome = "return"
    /\ last.net.status = 200
    /\ wire[Len(wire)].headers = {<<"Authorization", "AR-JWT tok123">>}

(* C10: a transport failure reaches the caller as an error of the client's *)
(* own hierarchy (a RemedyException).                                      *)
C10_TransportErrorWrapped ==
    TransportFailed(last) =>
        (last.outcome = "raise" /\ "RemedyException" \in Bases(last.exc))

(* A data operation failed on the response it got (a 4xx or 5xx).         *)
HttpFailure(r) ==
    /\ r.op \in DataOps
    /\ GotResponse(r)
    /\ r.net.status >= 400
    /\ r.outcome = "raise"

(* C11: the failures of the four data operations on a response are errors  *)
(* of four different kinds (and of another kind than NotAuthenticated):    *)
(* two different operations failing one after the other raise errors of    *)
(* different classes.                                                      *)
C11_ErrorKindsDistinct ==
    [][(HttpFailure(last) /\ HttpFailure(last') /\ last.op # last'.op)
            => last.exc # last'.exc]_vars

(* C12: on a 2xx response create_entry returns the pair of the Location    *)
(* header, or "" when the response has none, and the parsed body.          *)
C12_CreateReturnsLocationAndBody ==
    (last.op = "create_entry" /\ GotResponse(last) /\ Is2xx(last.net.status)) =>
        /\ last.outcome = "return"
        /\ last.value.kind = "tuple"
        /\ last.value.location =
              (IF last.net.location = None THEN "" ELSE last.net.location[1])
        /\ JsonDecodable(last.net.text) =>
              last.value.json = JsonLoads(last.net.text)

(* C13: on a 2xx response with an empty body create_entry succeeds and     *)
(* returns the empty object as the body.                                   *)
C13_CreateEmptyBody ==
    (last.op = "create_entry" /\ GotResponse(last) /\ Is2xx(last.net.status)
        /\ last.net.text = "") =>
        /\ last.outcome = "return"
        /\ last.value.json = {}

(* The value of parameter `key` in a request's query string, None when the *)
(* request does not have the parameter.                                    *)
Param(req, key) ==
    IF \E kv \in req.params : kv[1] = key
    THEN Some((CHOOSE kv \in req.params : kv[1] = key)[2])
    ELSE None

(* C14: query_form sends q exactly when a non-empty query is given, limit  *)
(* exactly when a non-zero limit is given, fields = values(f1,f2,...)      *)
(* exactly when a non-empty list is given, and nothing else; limit 0 sends *)
(* what no limit sends, and [Status, Priority] sends                       *)
(* values(Status,Priority).                                                *)
C14_QueryParameters ==
    (last.op = "query_form" /\ last.sent = 1) =>
        LET req == wire[Len(wire)]
            query == last.args[1]
            fields == last.args[2]
            limit == last.args[3]
        IN  /\ \A kv \in req.params : kv[1] \in {"q", "limit", "fields"}
            /\ Cardinality(req.params) =
                  Cardinality({kv[1] : kv \in req.params})
            /\ Param(req, "q") =
                  (IF query \in {None, Some("")} THEN None ELSE query)
            /\ Param(req, "limit") =
                  (IF limit \in {None, Some(0)} THEN None
                   ELSE Some(ToString(limit[1])))
            /\ (fields \in {None, Some(<< >>)}) <=> (Param(req, "fields") = None)
            /\ fields = Some(<<"Status", "Priority">>) =>
                  Param(req, "fields") = Some("values(Status,Priority)")

(* A query with a filter, the two fields and limit 0 went out with q and   *)
(* fields = values(Status,Priority) and without limit.                     *)
C14_Witness ==
    /\ last.op = "query_form"
    /\ last.sent = 1
    /\ last.args = <<Some("'Status'=\"New\""), Some(<<"Status", "Priority">>),
                     Some(0)>>
    /\ wire[Len(wire)].params =
          {<<"q", "'Status'=\"New\"">>, <<"fields", "values(Status,Priority)">>}

(* The calls that go to the server when a token is held.                   *)
NetOps == DataOps \cup {"logout", "__exit__"}

C16_DataOpsLeaveSession ==
    [][last'.op \in DataOps =>
            /\ auth_token' = auth_token
            /\ remedy_base_url' = remedy_base_url
            /\ pc' = pc]_vars

(* A second data operation went to the server after the first one, and     *)
(* failed on a 404, with the token still held.                             *)
C16_Witness ==
    /\ Len(wire) = 3
    /\ ~IsLogoutRequest(wire[2])
    /\ last.op \in DataOps
    /\ last.net.status = 404
    /\ last.outcome = "raise"
    /\ auth_token = Some("AR-JWT " \o login_response.text)

(* C17: a logout that gets a response that is not 2xx fails with           *)
(* LogoutFailure and leaves the token held.                                *)
C17_FailedLogoutKeepsToken ==
    (last.op = "logout" /\ GotResponse(last) /\ ~Is2xx(last.net.status)) =>
        /\ LogoutFailure(last)
        /\ Truthy(auth_token)
        /\ auth_token = last.token_before

(* C18: the scoped exit of a session that holds no token sends nothing and *)
(* raises nothing of its own; the normal exit of a session that holds one  *)
(* raises LogoutFailure when the logout response is not 2xx.               *)
C18_ScopedExitLogout ==
    last.op = "__exit__" =>
        /\ ~Truthy(last.token_before) =>
              (last.sent = 0 /\ last.exc = last.inflight)
        /\ (Truthy(last.token_before) /\ last.inflight = ""
                /\ GotResponse(last) /\ ~Is2xx(last.net.status)) =>
              LogoutFailure(last)

(* C19: with logout running in one thread and a data operation in         *)
(* another, every request of the data operation is sent while the token is *)
(* held and carries it in its Authorization header.                        *)
C19_RequestsCarryPresentToken ==
    [][(threads.worker.pc = "ready" /\ threads'.worker.pc = "sent") =>
            /\ Truthy(auth_token)
            /\ wire'[Len(wire')].headers = AuthHeader(auth_token)]_vars

(* C19, amended: a request of the data operation carries the token of the  *)
(* session's login or no Authorization header at all, and it carries the   *)
(* token whenever the token is still held.                                 *)
C19_RaceAmended ==
    threads.worker.sent # << >> =>
        LET headers == threads.worker.sent[1].headers
        IN  /\ headers \in {{}, {<<"Authorization",
                                   "AR-JWT " \o login_response.text>>}}
            /\ Truthy(auth_token) => headers = AuthHeader(auth_token)

(* The data operation passed its guard, logout cleared the token, and the  *)
(* request went out without an Authorization header.                       *)
C19_Witness ==
    /\ threads.worker.pc = "sent"
    /\ threads.worker.sent[1].headers = {}
    /\ threads.closer.pc = "done"
    /\ auth_token = None

====
